---------------------------- MODULE Spec2Model ----------------------------
(***************************************************************************)
(* State-machine model of the study-assistant bot in src/main.py.          *)
(*                                                                         *)
(* State: the two process-wide dictionaries (user_knowledge_base,          *)
(* user_sessions), the files of the knowledge_base folder, the temporary   *)
(* download files temp_<user>.pdf, and the platform the process runs on    *)
(* (main.py distinguishes win32).  One action per bot event: the           *)
(* application handles updates one at a time, so a handler runs from its   *)
(* first line to its return without interleaving.                          *)
(*                                                                         *)
(* A text is a sequence of characters; "LF" and "CR" stand for the line    *)
(* feed and the carriage return.  Python's Optional values are modelled as *)
(* sequences of length at most one: <<>> is None (or "no such file"),      *)
(* <<t>> is the value t.                                                   *)
(*                                                                         *)
(* Transport sends that the code performs outside a try block or inside an *)
(* except block are taken to succeed; a send inside a try block may be     *)
(* refused (sendOk = FALSE), which the code turns into its error reply.    *)
(***************************************************************************)
EXTENDS Integers, Sequences, FiniteSets, TLC

\* ------------------------------------------------------------- bounds
MaxPages == 2
MaxTorn  == 1
MaxExtra == 6

\* -------------------------------------------------- program constants
ExamContextLimit == 40000
ChatContextLimit == 30000
SnippetLen       == 4000

\* Every handler reads and writes only the entries and the files of its own
\* user_id, so the model follows one user.
Users == {1}

LF == "LF"
CR == "CR"

None == <<>>
Some(x) == <<x>>

PDF_MIME == "application/pdf"
PNG_MIME == "image/png"
Mimes == {PDF_MIME, PNG_MIME}

NoActiveQuestion == "No active question."
NoSession == "<no entry>"

Platforms == {"posix", "win32"}

\* ------------------------------------------------------ pure helpers
Min(a, b) == IF a < b THEN a ELSE b

\* s[:n]
Take(s, n) == SubSeq(s, 1, Min(Len(s), n))

\* os.linesep of the platform
LineSep(plat) == IF plat = "win32" THEN <<CR, LF>> ELSE <<LF>>

\* What open(path, "w", encoding="utf-8") puts in the file for f.write(s):
\* text mode with the default newline=None writes every "\n" as os.linesep.
RECURSIVE WriteTranslate(_, _)
WriteTranslate(s, plat) ==
    IF s = <<>> THEN <<>>
    ELSE (IF Head(s) = LF THEN LineSep(plat) ELSE <<Head(s)>>)
         \o WriteTranslate(Tail(s), plat)

\* What f.read() returns for a file opened with open(path, "r",
\* encoding="utf-8"): text mode with the default newline=None reads
\* "\r\n" and a lone "\r" as "\n" (universal newlines), on every platform.
RECURSIVE ReadTranslate(_)
ReadTranslate(c) ==
    IF c = <<>> THEN <<>>
    ELSE IF Head(c) = CR
         THEN IF Len(c) > 1 /\ c[2] = LF
              THEN <<LF>> \o ReadTranslate(SubSeq(c, 3, Len(c)))
              ELSE <<LF>> \o ReadTranslate(Tail(c))
         ELSE <<Head(c)>> \o ReadTranslate(Tail(c))

\* args[0].lower()
Lower(a) == IF a \in {"random", "Random", "RANDOM"} THEN "random" ELSE a

\* The mutant tests "is not None" where the code tests truthiness.
TruthyNotNone(ctx) == ctx # <<>>

\* Python truthiness of an Optional[str]: None and "" are falsy
\* (if not full_text).
Truthy(ctx) == ctx # <<>> /\ ctx[1] # <<>>

VARIABLES
    platform,             \* sys.platform of the process
    user_knowledge_base,  \* user -> None | Some(text)
    kb_files,             \* user -> None | Some(content of knowledge_base/<user>.txt)
    temp_files,           \* user -> whether temp_<user>.pdf exists
    user_sessions,        \* user -> NoSession | question text
    ev,                   \* the event handled last, and what its handler did
    last_generated,       \* history: user -> text of the last generation a quiz
                          \*          obtained in this process (NoSession: none)
    last_written          \* history: user -> Some(text of the last completed
                          \*          f.write to the user's file) | None

vars == <<platform, user_knowledge_base, kb_files, temp_files, user_sessions,
          ev, last_generated, last_written>>

\* A prompt, by the parts the handlers put into it.
Prompt(mode, notes, snippet, topic, lastq, input) ==
    [mode |-> mode, notes |-> notes, snippet |-> snippet, topic |-> topic,
     lastq |-> lastq, input |-> input]

\* The record of an event before its handler has done anything: the event
\* (kind, user, mime, pages of the uploaded file) and, filled in by the
\* handler, the reply sent last and the error text in it, the calls made to
\* the PDF adapter (pdf) and to the model (llm) with their outcomes, what
\* get_user_context returned (ctx), the text handle_document built (text),
\* the offset generate_quiz drew (start) and the way handle_document ended
\* (path).
Event(kind, u) ==
    [kind |-> kind, user |-> u, mime |-> "", path |-> "", reply |-> "",
     errtext |-> "", pages |-> <<>>, pdf |-> <<>>, llm |-> <<>>, ctx |-> None,
     text |-> None, start |-> -1]

\* ------------------------------------------------- get_user_context
\* The mutant looks on disk before it looks in memory.
GetUserContextDiskFirst(kb, files, u, readOk) ==
    IF files[u] # None /\ readOk
    THEN [text |-> Some(ReadTranslate(files[u][1])),
          kb   |-> [kb EXCEPT ![u] = Some(ReadTranslate(files[u][1]))]]
    ELSE [text |-> kb[u], kb |-> kb]

\* get_user_context(user_id): the returned text and the dictionary after the
\* call.  readOk = FALSE is a read that raises (caught, printed, None).
GetUserContext(kb, files, u, readOk) ==
    IF kb[u] # None
    THEN [text |-> kb[u], kb |-> kb]
    ELSE IF files[u] # None
         THEN IF readOk
              THEN [text |-> Some(ReadTranslate(files[u][1])),
                    kb   |-> [kb EXCEPT ![u] = Some(ReadTranslate(files[u][1]))]]
              ELSE [text |-> None, kb |-> kb]
         ELSE [text |-> None, kb |-> kb]

\* How the read of the user's file can end when get_user_context is called:
\* it succeeds or raises.  When the call reads no file there is one outcome.
ReadOutcomes(kb, files, u) ==
    IF kb[u] = None /\ files[u] # None THEN BOOLEAN ELSE {TRUE}

\* ------------------------------------------------------------- Init
Init ==
    /\ platform \in Platforms
    /\ user_knowledge_base = [u \in Users |-> None]
    /\ kb_files = [u \in Users |-> None]
    /\ temp_files = [u \in Users |-> FALSE]
    /\ user_sessions = [u \in Users |-> NoSession]
    /\ ev = Event("init", 0)
    /\ last_generated = [u \in Users |-> NoSession]
    /\ last_written = [u \in Users |-> None]

\* ------------------------------------------------------------ start
Start(u) ==
    \E readOk \in ReadOutcomes(user_knowledge_base, kb_files, u) :
        \E g \in {GetUserContext(user_knowledge_base, kb_files, u, readOk)} :
        /\ user_knowledge_base' = g.kb
        /\ ev' = [Event("start", u) EXCEPT
                    !.ctx = g.text,
                    !.reply = IF g.text # None THEN "status: I remember your last PDF"
                                               ELSE "status: Memory empty"]
        /\ UNCHANGED <<platform, kb_files, temp_files, user_sessions,
                       last_generated, last_written>>

\* ------------------------------------------------------ PDF adapter
\* What the PDF library does for one uploaded file: PdfReader(path) opens it
\* or raises, and each page's extract_text() returns a text or raises.
PageTexts == {<<"a">>, <<CR>>}
PageResults == {[ok |-> TRUE, text |-> t] : t \in PageTexts}
                   \cup {[ok |-> FALSE, text |-> <<>>]}
PageSeqs == UNION {[1..n -> PageResults] : n \in 0..MaxPages}
Pdfs == {[readable |-> TRUE, pages |-> p] : p \in PageSeqs}
            \cup {[readable |-> FALSE, pages |-> <<>>]}

\* The mutant forgets the newline after each page.
AppendPageNoNewline(text, page) == text \o page

\* text += page.extract_text() + "\n"
AppendPage(text, page) == text \o page \o <<LF>>

\* The mutant calls extract_text() once more on a page that raised.
RECURSIVE ExtractLoopRetry(_, _, _, _)
ExtractLoopRetry(pages, i, text, trace) ==
    IF i > Len(pages)
    THEN [ok |-> TRUE, text |-> text, trace |-> trace]
    ELSE IF pages[i].ok
         THEN ExtractLoopRetry(pages, i + 1, AppendPage(text, pages[i].text),
                               Append(trace, "ok"))
         ELSE [ok |-> FALSE, text |-> text, trace |-> trace \o <<"fail", "fail">>]

\* for page in reader.pages: ...  The trace lists the adapter calls made, in
\* order, each with its outcome; a call that raises ends the loop.
RECURSIVE ExtractLoop(_, _, _, _)
ExtractLoop(pages, i, text, trace) ==
    IF i > Len(pages)
    THEN [ok |-> TRUE, text |-> text, trace |-> trace]
    ELSE IF pages[i].ok
         THEN ExtractLoop(pages, i + 1, AppendPage(text, pages[i].text),
                          Append(trace, "ok"))
         ELSE [ok |-> FALSE, text |-> text, trace |-> Append(trace, "fail")]

\* reader = PdfReader(file_path); text = ""; the page loop.
ExtractText(pdf) ==
    IF ~pdf.readable
    THEN [ok |-> FALSE, text |-> <<>>, trace |-> <<"fail">>]
    ELSE ExtractLoop(pdf.pages, 1, <<>>, <<"ok">>)

\* ------------------------------------------------- handle_document
\* How get_file / download_to_drive end: the temporary file is written only
\* by a download that got its bytes, and a failing download may leave it.
DownloadOutcomes == {"ok", "download_failed_no_file",
                     "download_failed_partial_file"}

\* How the write of the knowledge file ends: open() raises (the file is as
\* it was), or open() truncates and the write or the close raises after
\* `keep` characters reached the file, or all of the text is written.
WriteOutcomes == {[kind |-> "ok", keep |-> 0], [kind |-> "open_failed", keep |-> 0]}
                     \cup {[kind |-> "torn", keep |-> k] : k \in 0..MaxTorn}

\* The file after  with open(path, "w", encoding="utf-8") as f: f.write(text)
WriteFile(old, text, plat, w) ==
    IF w.kind = "open_failed" THEN old
    ELSE IF w.kind = "torn"
         THEN Some(Take(WriteTranslate(text, plat),
                        Min(w.keep, Len(WriteTranslate(text, plat)))))
         ELSE Some(WriteTranslate(text, plat))

\* except Exception as e: await msg.edit_text(f"Failure: {str(e)}")
Failure(e, path, err) ==
    [e EXCEPT !.path = path, !.reply = "Failure: " \o err, !.errtext = err]

\* handle_document, from its first line to its return.  The result holds the
\* three stores after the call, the text of a completed write and the event.
HandleDocument(kb, files, temps, written, plat, u, mime, dl, pdf, w, sendOk) ==
    LET e0 == [Event("document", u) EXCEPT !.mime = mime, !.pages = pdf.pages]
        same(e) == [kb |-> kb, files |-> files, temps |-> temps,
                    written |-> written, ev |-> e]
    IN
    IF mime # PDF_MIME
    THEN same([e0 EXCEPT !.path = "rejected", !.reply = "Strictly PDFs only."])
    ELSE IF dl = "download_failed_no_file"
    THEN same(Failure(e0, "download_failed", "download error"))
    ELSE IF dl = "download_failed_partial_file"
    THEN [same(Failure(e0, "download_failed", "download error"))
             EXCEPT !.temps = [temps EXCEPT ![u] = TRUE]]
    ELSE
    LET temps1 == [temps EXCEPT ![u] = TRUE]
        x  == ExtractText(pdf)
        e1 == [e0 EXCEPT !.pdf = x.trace]
    IN
    IF ~x.ok
    THEN [same(Failure(e1, "extract_failed", "pdf error")) EXCEPT !.temps = temps1]
    ELSE
    LET kb1 == [kb EXCEPT ![u] = Some(x.text)]
        files1 == [files EXCEPT ![u] = WriteFile(files[u], x.text, plat, w)]
        e2 == [e1 EXCEPT !.text = Some(x.text)]
    IN
    IF w.kind # "ok"
    THEN [kb |-> kb1, files |-> files1, temps |-> temps1,
          written |-> IF w.kind = "torn" THEN [written EXCEPT ![u] = None]
                                         ELSE written,
          ev |-> Failure(e2, "write_failed", "disk error")]
    ELSE
    LET temps2 == [temps1 EXCEPT ![u] = FALSE]
        done == [kb |-> kb1, files |-> files1, temps |-> temps2,
                 written |-> [written EXCEPT ![u] = Some(x.text)],
                 ev |-> [e2 EXCEPT !.path = "saved", !.reply = "Saved."]]
    IN
    IF sendOk THEN done
    ELSE [done EXCEPT !.ev = Failure(e2, "saved", "send error")]

\* The documents that can arrive and how the outside world answers while one
\* is handled.  An answer the handler never asks for (the PDF of a download
\* that failed, the write after an extraction that failed, ...) is held at
\* one value, so that each run of the handler is listed once.
OkWrite == [kind |-> "ok", keep |-> 0]
EmptyPdf == [readable |-> TRUE, pages |-> <<>>]
DocInput(mime, dl, pdf, w, sendOk) ==
    [mime |-> mime, dl |-> dl, pdf |-> pdf, w |-> w, sendOk |-> sendOk]
\* The files whose extraction raises, one for each place where it can: the
\* pages after the one that raises are never asked for, and the texts of the
\* pages before it are thrown away with the partial text.
FailingPdfs ==
    {q \in Pdfs : /\ ~ExtractText(q).ok
                  /\ \A i \in 1..Len(q.pages) :
                        /\ q.pages[i].ok => q.pages[i].text = <<"a">>
                        /\ ~q.pages[i].ok => i = Len(q.pages)}
DocumentInputs ==
    {DocInput(m, "ok", EmptyPdf, OkWrite, TRUE) : m \in Mimes \ {PDF_MIME}}
    \cup {DocInput(PDF_MIME, dl, EmptyPdf, OkWrite, TRUE) :
             dl \in DownloadOutcomes \ {"ok"}}
    \cup {DocInput(PDF_MIME, "ok", pdf, OkWrite, TRUE) : pdf \in FailingPdfs}
    \cup {DocInput(PDF_MIME, "ok", pdf, w, TRUE) :
             pdf \in {q \in Pdfs : ExtractText(q).ok}, w \in WriteOutcomes}
    \cup {DocInput(PDF_MIME, "ok", pdf, OkWrite, FALSE) :
             pdf \in {q \in Pdfs : ExtractText(q).ok}}

\* filters.Document.PDF of the handler's registration: the dispatcher calls
\* handle_document only for a document whose MIME type is application/pdf.
FilterDocumentPDF(mime) == mime = PDF_MIME

\* A document arrives.  No other registered handler matches a document, so
\* one that the filter refuses is handled by nobody and gets no reply.
Document(u) ==
    \E d \in DocumentInputs :
        \E r \in {IF FilterDocumentPDF(d.mime)
                 THEN HandleDocument(user_knowledge_base, kb_files, temp_files,
                                     last_written, platform, u, d.mime, d.dl,
                                     d.pdf, d.w, d.sendOk)
                 ELSE [kb |-> user_knowledge_base, files |-> kb_files,
                       temps |-> temp_files, written |-> last_written,
                       ev |-> [Event("document", u) EXCEPT
                                 !.mime = d.mime, !.path = "not dispatched"]]} :
        /\ user_knowledge_base' = r.kb
        /\ kb_files' = r.files
        /\ temp_files' = r.temps
        /\ last_written' = r.written
        /\ ev' = r.ev
        /\ UNCHANGED <<platform, user_sessions, last_generated>>

\* ------------------------------------------------------ LLM adapter
\* How model.generate_content(prompt) and response.text end: a text, or an
\* exception (quota, network, blocked content).
QuizGenerations == {[ok |-> TRUE, text |-> "Q1"], [ok |-> TRUE, text |-> "Q2"],
                    [ok |-> FALSE, text |-> "quota exceeded"]}
ChatGenerations == {[ok |-> TRUE, text |-> "A1"],
                    [ok |-> FALSE, text |-> "quota exceeded"]}

\* context.args of /quiz
ArgLists == {<<>>, <<"RANDOM">>, <<"igneous", "rocks">>}

\* " ".join(args)
RECURSIVE JoinArgs(_)
JoinArgs(args) ==
    IF Len(args) = 0 THEN ""
    ELSE IF Len(args) = 1 THEN args[1]
    ELSE args[1] \o " " \o JoinArgs(Tail(args))

\* The mutant draws with an exclusive upper end (random.randrange).
RandomStartsExclusive(len) == 0..(len - SnippetLen - 1)

\* The values random.randint(0, len(full_text) - 4000) can return.
RandomStarts(len) == 0..(len - SnippetLen)

\* The offsets the random mode can draw for a text: none is drawn for a text
\* of at most 4000 characters (written -1).
StartChoices(text) ==
    IF Len(text) > SnippetLen THEN RandomStarts(Len(text)) ELSE {-1}

\* snippet = full_text[start : start+4000] for a long text, else full_text
Snippet(text, start) ==
    IF Len(text) > SnippetLen
    THEN SubSeq(text, start + 1, Min(Len(text), start + SnippetLen))
    ELSE text

\* model.generate_content(prompt): the calls made to the adapter, in order.
Generate(prompt, gen) == <<[prompt |-> prompt, ok |-> gen.ok]>>

\* --------------------------------------------------- generate_quiz
\* args and args[0].lower() == "random"
IsRandom(args) == Len(args) > 0 /\ Lower(args[1]) = "random"

\* The prompt of lines 112-146: the mode, the notes (full_text[:40000]) and
\* the mode's own part.
QuizPrompt(full_text, args, start) ==
    IF IsRandom(args)
    THEN Prompt("random", Take(full_text, ExamContextLimit),
                Snippet(full_text, start), "", "", "")
    ELSE IF Len(args) > 0
    THEN Prompt("topic", Take(full_text, ExamContextLimit), <<>>,
                JoinArgs(args), "", "")
    ELSE Prompt("exam", Take(full_text, ExamContextLimit), <<>>, "", "", "")

\* generate_quiz, from its first line to its return.
GenerateQuiz(kb, files, sessions, u, args, readOk, start, gen, sendOk) ==
    LET g  == GetUserContext(kb, files, u, readOk)
        e0 == [Event("quiz", u) EXCEPT !.ctx = g.text]
    IN
    IF ~Truthy(g.text)
    THEN [kb |-> g.kb, sessions |-> sessions,
          ev |-> [e0 EXCEPT !.reply = "Memory empty. Upload a PDF first."]]
    ELSE
    LET prompt == QuizPrompt(g.text[1], args, start)
        e1 == [e0 EXCEPT !.llm = Generate(prompt, gen),
                         !.start = IF prompt.mode = "random" THEN start ELSE -1]
    IN
    IF ~gen.ok
    THEN [kb |-> g.kb, sessions |-> sessions,
          ev |-> [e1 EXCEPT !.reply = "AI Error: " \o gen.text,
                            !.errtext = gen.text]]
    ELSE
    LET sessions1 == [sessions EXCEPT ![u] = gen.text] IN
    IF sendOk
    THEN [kb |-> g.kb, sessions |-> sessions1,
          ev |-> [e1 EXCEPT !.reply = gen.text \o " (Study Aid Only. Not a leak.)"]]
    ELSE [kb |-> g.kb, sessions |-> sessions1,
          ev |-> [e1 EXCEPT !.reply = "AI Error: send error",
                            !.errtext = "send error"]]

\* The /quiz commands that can arrive for a user whose context is `full`, and
\* how the outside world answers.  An answer the handler never asks for is
\* held at one value: no model call is made without a context, an offset is
\* drawn only in random mode, a reply follows only a generation that worked.
QuizInput(args, start, gen, sendOk) ==
    [args |-> args, start |-> start, gen |-> gen, sendOk |-> sendOk]
QuizInputs(full) ==
    IF ~Truthy(full)
    THEN {QuizInput(a, -1, [ok |-> TRUE, text |-> "Q1"], TRUE) : a \in ArgLists}
    ELSE UNION {UNION {{QuizInput(a, st, g, so) :
                          st \in (IF IsRandom(a) THEN StartChoices(full[1]) ELSE {-1}),
                          so \in (IF g.ok THEN BOOLEAN ELSE {TRUE})} :
                       g \in QuizGenerations} :
                a \in ArgLists}

\* The /quiz command.
Quiz(u) ==
    \E readOk \in ReadOutcomes(user_knowledge_base, kb_files, u) :
        \E q \in QuizInputs(GetUserContext(user_knowledge_base, kb_files, u,
                                          readOk).text) :
            \E r \in {GenerateQuiz(user_knowledge_base, kb_files, user_sessions,
                                   u, q.args, readOk, q.start, q.gen, q.sendOk)} :
            /\ user_knowledge_base' = r.kb
            /\ user_sessions' = r.sessions
            /\ ev' = r.ev
            /\ last_generated' =
                   IF Len(r.ev.llm) > 0 /\ q.gen.ok
                   THEN [last_generated EXCEPT ![u] = q.gen.text]
                   ELSE last_generated
            /\ UNCHANGED <<platform, kb_files, temp_files, last_written>>

\* -------------------------------------------------- handle_message
UserInputs == {"IDK"}

\* The mutant reads the session of no user at all.
LastQuestionDefault(sessions, u) == NoActiveQuestion

\* user_sessions.get(user_id, "No active question.")
LastQuestion(sessions, u) ==
    IF sessions[u] = NoSession THEN NoActiveQuestion ELSE sessions[u]

\* handle_message, from its first line to its return.
HandleMessage(kb, files, sessions, u, input, readOk, gen, sendOk) ==
    LET g  == GetUserContext(kb, files, u, readOk)
        last_question == LastQuestion(sessions, u)
        e0 == [Event("chat", u) EXCEPT !.ctx = g.text]
    IN
    IF ~Truthy(g.text)
    THEN [kb |-> g.kb,
          ev |-> [e0 EXCEPT !.reply = "No PDF found. Please upload notes first."]]
    ELSE
    LET prompt == Prompt("chat", Take(g.text[1], ChatContextLimit), <<>>, "",
                         last_question, input)
        e1 == [e0 EXCEPT !.llm = Generate(prompt, gen)]
    IN
    IF ~gen.ok
    THEN [kb |-> g.kb,
          ev |-> [e1 EXCEPT !.reply = "Error: " \o gen.text, !.errtext = gen.text]]
    ELSE IF sendOk
    THEN [kb |-> g.kb, ev |-> [e1 EXCEPT !.reply = gen.text]]
    ELSE [kb |-> g.kb,
          ev |-> [e1 EXCEPT !.reply = "Error: send error", !.errtext = "send error"]]

\* The messages that can arrive for a user whose context is `full`, and how
\* the outside world answers (one value for an answer never asked for).
ChatInput(input, gen, sendOk) == [input |-> input, gen |-> gen, sendOk |-> sendOk]
ChatInputs(full) ==
    IF ~Truthy(full)
    THEN {ChatInput(i, [ok |-> TRUE, text |-> "A1"], TRUE) : i \in UserInputs}
    ELSE UNION {{ChatInput(i, g, so) :
                    i \in UserInputs, so \in (IF g.ok THEN BOOLEAN ELSE {TRUE})} :
                g \in ChatGenerations}

\* A text message that is not a command.
Chat(u) ==
    \E readOk \in ReadOutcomes(user_knowledge_base, kb_files, u) :
        \E c \in ChatInputs(GetUserContext(user_knowledge_base, kb_files, u,
                                          readOk).text) :
            \E r \in {HandleMessage(user_knowledge_base, kb_files, user_sessions,
                                    u, c.input, readOk, c.gen, c.sendOk)} :
            /\ user_knowledge_base' = r.kb
            /\ ev' = r.ev
            /\ UNCHANGED <<platform, kb_files, temp_files, user_sessions,
                           last_generated, last_written>>

\* A new process on the same disk: both dictionaries start empty (lines
\* 30-31), the files stay.
Restart ==
    /\ user_knowledge_base' = [u \in Users |-> None]
    /\ user_sessions' = [u \in Users |-> NoSession]
    /\ last_generated' = [u \in Users |-> NoSession]
    /\ ev' = Event("restart", 0)
    /\ UNCHANGED <<platform, kb_files, temp_files, last_written>>

Next ==
    \/ \E u \in Users : Start(u)
    \/ \E u \in Users : Document(u)
    \/ \E u \in Users : Quiz(u)
    \/ \E u \in Users : Chat(u)
    \/ Restart

Spec == Init /\ [][Next]_vars

\* --------------------------------------------- long texts, random mode
\* A text of len characters whose windows differ from offset to offset.
LongText(len) == [i \in 1..len |-> IF (i * i) % 7 < 3 THEN "a" ELSE "b"]

\* A process that holds an uploaded text of about 4000 characters, saved on
\* a posix disk (the text has no line ends, so the file holds it as it is).
InitSnippet ==
    /\ platform = "posix"
    /\ \E len \in (SnippetLen - 1)..(SnippetLen + MaxExtra) :
          /\ user_knowledge_base = [u \in Users |-> Some(LongText(len))]
          /\ kb_files = [u \in Users |-> Some(LongText(len))]
          /\ last_written = [u \in Users |-> Some(LongText(len))]
    /\ temp_files = [u \in Users |-> FALSE]
    /\ user_sessions = [u \in Users |-> NoSession]
    /\ ev = Event("init", 0)
    /\ last_generated = [u \in Users |-> NoSession]

NextSnippet == \E u \in Users : Quiz(u)

SpecSnippet == InitSnippet /\ [][NextSnippet]_vars

\* ================================================================ claims

\* C1: after a document event with the PDF MIME type has been handled, the
\* temporary file temp_<user>.pdf does not exist, whichever way the handler
\* ended.
C1_TempFileRemoved ==
    (ev.kind = "document" /\ ev.mime = PDF_MIME) => ~temp_files[ev.user]

\* C2: between events, every user with an entry in the in-memory knowledge
\* map has a knowledge file whose content equals that entry.
C2_MemoryEqualsDisk ==
    \A u \in Users :
        user_knowledge_base[u] # None =>
            /\ kb_files[u] # None
            /\ kb_files[u][1] = user_knowledge_base[u][1]

\* C3: right after a successful upload has stored the text T,
\* get_user_context(user) returns exactly T, whatever the file holds and
\* whether or not a read of it would succeed.
C3_PutThenGet ==
    (ev.kind = "document" /\ ev.path = "saved") =>
        \A readOk \in BOOLEAN :
            GetUserContext(user_knowledge_base, kb_files, ev.user, readOk).text
                = ev.text

\* C3 witness: an upload was saved whose file does not read back as T, so
\* the answer can only have come from memory.
C3_Witness ==
    /\ ev.kind = "document" /\ ev.path = "saved"
    /\ ReadTranslate(kb_files[ev.user][1]) # ev.text[1]

\* C4: right after a restart, for every user whose file exists, is readable
\* and holds a completed write, get_user_context(user) returns exactly the
\* text last written and leaves that same text in the in-memory map.
C4_RestartReadsBack ==
    \A u \in Users :
        (ev.kind = "restart" /\ kb_files[u] # None /\ last_written[u] # None) =>
            /\ GetUserContext(user_knowledge_base, kb_files, u, TRUE).text
                   = last_written[u]
            /\ GetUserContext(user_knowledge_base, kb_files, u, TRUE).kb[u]
                   = last_written[u]

\* C5 (its case): the stored knowledge of user u is absent or empty: nothing in memory and
\* no file, or an empty text in memory, or nothing in memory and an empty
\* file.
C5_KnowledgeEmpty(u) ==
    \/ user_knowledge_base[u] = Some(<<>>)
    \/ user_knowledge_base[u] = None /\ kb_files[u] = None
    \/ user_knowledge_base[u] = None /\ kb_files[u] = Some(<<>>)

\* C5 (its replies): the fixed replies of generate_quiz and handle_message.
C5_FixedReplies ==
    {"Memory empty. Upload a PDF first.", "No PDF found. Please upload notes first."}

\* C5 as stated: a quiz or chat event for a user whose stored knowledge is
\* absent or empty makes no model call, sends only the fixed reply, and
\* leaves the in-memory knowledge map, the files and the sessions unchanged.
C5_NoCallStoresUnchanged ==
    [][(ev'.kind \in {"quiz", "chat"} /\ C5_KnowledgeEmpty(ev'.user)) =>
          /\ ev'.llm = <<>>
          /\ ev'.reply \in C5_FixedReplies
          /\ user_knowledge_base' = user_knowledge_base
          /\ kb_files' = kb_files
          /\ user_sessions' = user_sessions]_vars

\* C5 as amended: a quiz or chat event for a user whose stored knowledge is
\* absent or empty makes no model call, sends only the fixed reply, and
\* leaves the files and the sessions unchanged; the in-memory knowledge map
\* is unchanged except that the empty text of the user's file is cached in
\* it when the map had no entry.
C5_NoCallOnlyCacheFill ==
    [][(ev'.kind \in {"quiz", "chat"} /\ C5_KnowledgeEmpty(ev'.user)) =>
          /\ ev'.llm = <<>>
          /\ ev'.reply \in C5_FixedReplies
          /\ kb_files' = kb_files
          /\ user_sessions' = user_sessions
          /\ \/ user_knowledge_base' = user_knowledge_base
             \/ /\ user_knowledge_base[ev'.user] = None
                /\ kb_files[ev'.user] = Some(<<>>)
                /\ user_knowledge_base' =
                       [user_knowledge_base EXCEPT ![ev'.user] = Some(<<>>)]]_vars

\* C5 witness: a quiz was refused for a user whose knowledge is the empty
\* text of an upload without pages.
C5_Witness ==
    /\ ev.kind = "quiz" /\ ev.ctx = Some(<<>>)
    /\ ev.reply = "Memory empty. Upload a PDF first."
    /\ ev.llm = <<>>

\* C6: a document event whose MIME type is not application/pdf is answered
\* with the fixed warning, leaves the in-memory knowledge map and the
\* knowledge files unchanged, and no temporary file exists afterwards.
C6_NonPdfRejected ==
    [][(ev'.kind = "document" /\ ev'.mime # PDF_MIME) =>
          /\ ev'.reply = "Strictly PDFs only."
          /\ user_knowledge_base' = user_knowledge_base
          /\ kb_files' = kb_files
          /\ ~temp_files'[ev'.user]]_vars

\* C7: a chat event that calls the model passes, as the last question, the
\* text of the last generation a quiz of that user obtained in this process,
\* and the sentinel "No active question." when there was none.
C7_LastQuestionPassed ==
    (ev.kind = "chat" /\ Len(ev.llm) > 0) =>
        /\ Len(ev.llm) = 1
        /\ ev.llm[1].prompt.lastq =
               IF last_generated[ev.user] = NoSession
               THEN NoActiveQuestion
               ELSE last_generated[ev.user]

\* C7 witness: a chat passed the second question after both were generated.
C7_Witness ==
    /\ ev.kind = "chat" /\ Len(ev.llm) = 1
    /\ ev.llm[1].prompt.lastq = "Q2"

\* C8: in random mode a text longer than 4000 characters yields a window of
\* exactly 4000 characters that starts at the drawn offset, the offset lies
\* in [0, L-4000] and every offset of that range can be drawn; a text of at
\* most 4000 characters is passed whole.
C8_RandomSnippet ==
    (ev.kind = "quiz" /\ Len(ev.llm) > 0 /\ ev.llm[1].prompt.mode = "random") =>
        IF Len(ev.ctx[1]) > SnippetLen
        THEN /\ Len(ev.llm[1].prompt.snippet) = SnippetLen
             /\ ev.start \in 0..(Len(ev.ctx[1]) - SnippetLen)
             /\ \A i \in 1..SnippetLen :
                    ev.llm[1].prompt.snippet[i] = ev.ctx[1][ev.start + i]
             /\ \A s \in 0..(Len(ev.ctx[1]) - SnippetLen) :
                    s \in StartChoices(ev.ctx[1])
        ELSE ev.llm[1].prompt.snippet = ev.ctx[1]

\* C8 witness: the last possible window of a long text was drawn.
C8_Witness ==
    /\ ev.kind = "quiz" /\ Len(ev.llm) > 0
    /\ ev.llm[1].prompt.mode = "random"
    /\ Len(ev.ctx[1]) > SnippetLen + 1
    /\ ev.start = Len(ev.ctx[1]) - SnippetLen

\* C9: when a call to the PDF adapter (document) or to the model (quiz,
\* chat) fails, it is the last call the handler makes to that adapter, and
\* the handler ends by sending its error message with the error text in it.
C9_FailureCaughtOnce ==
    /\ (ev.kind = "document" /\ \E i \in 1..Len(ev.pdf) : ev.pdf[i] = "fail") =>
          /\ \A i \in 1..Len(ev.pdf) : ev.pdf[i] = "fail" <=> i = Len(ev.pdf)
          /\ ev.errtext = "pdf error"
          /\ ev.reply = "Failure: " \o ev.errtext
    /\ (ev.kind \in {"quiz", "chat"} /\ \E i \in 1..Len(ev.llm) : ~ev.llm[i].ok) =>
          /\ Len(ev.llm) = 1
          /\ ev.errtext = "quota exceeded"
          /\ ev.reply = (IF ev.kind = "quiz" THEN "AI Error: " ELSE "Error: ")
                            \o ev.errtext

\* C9 witness: an extraction failed on the second page of a file.
C9_Witness ==
    /\ ev.kind = "document"
    /\ ev.pdf = <<"ok", "ok", "fail">>
    /\ ev.path = "extract_failed"

\* C10 (its text): p1 + "\n" + p2 + "\n" + ... + pn + "\n"
RECURSIVE C10_Concat(_)
C10_Concat(pages) ==
    IF pages = <<>> THEN <<>>
    ELSE pages[1].text \o <<LF>> \o C10_Concat(Tail(pages))

=============================================================================
